---- MODULE Spec2Model ----
(***************************************************************************)
(* tuncat: provisioning of a TUN/TAP interface (create_tun / close_tun),   *)
(* the option parsing and cleanup of main, and the select() loop of        *)
(* infinite_loop, for the three revisions of the program held by the       *)
(* repository:                                                             *)
(*   "v3"  src/unnamed/part_000        (owner/group support)               *)
(*   "v2"  src/main.c lines 1-237      (create_tun without owner/group)    *)
(*   "v1"  src/main.c lines 239-387    (main only parses its options)      *)
(* A behaviour is one execution entered at `entry`: the program (main), or *)
(* one call of create_tun or of infinite_loop with arbitrary arguments     *)
(* (main calls neither infinite_loop nor setup_signal_handlers).           *)
(***************************************************************************)
EXTENDS Integers, Sequences, FiniteSets, TLC

\* ------------------------------------------------------------ constants
EPERM == 1
EINTR == 4
EBADF == 9
ENOMEM == 12
EBUSY == 16
EINVAL == 22
ERANGE == 34
ENAMETOOLONG == 36
IFNAMSIZ == 16
DEFAULT_BUFFER_LEN == 65536
STDIN_FILENO == 0
STDOUT_FILENO == 1

\* ------------------------------------------------------------ bounds
\* options handed to one run of main
MaxArgs == 2
\* (unsigned int)-1 on a reduced word: int and unsigned int have
\* UIntMax + 1 values, long has 2 * (LongMax + 1)
UIntMax == 15
LongMax == 127
\* bytes the environment makes readable on each source of the loop
MaxData == 2
\* caught signals delivered during one call of infinite_loop
MaxSignals == 2

\* ------------------------------------------------------------ C strings
DigitChars == <<"0", "1", "2", "3", "4", "5", "6", "7", "8", "9">>

IsDigit(c) == \E d \in 1..10 : DigitChars[d] = c

DigitVal(c) == (CHOOSE d \in 1..10 : DigitChars[d] = c) - 1

RECURSIVE ToDec(_)
ToDec(n) == IF n < 10 THEN <<DigitChars[n + 1]>>
            ELSE ToDec(n \div 10) \o <<DigitChars[(n % 10) + 1]>>

\* the decimal text of an integer, as a user types it
Itoa(n) == IF n < 0 THEN <<"-">> \o ToDec(0 - n) ELSE ToDec(n)

\* index one past the last digit of the run of digits that starts at i
RECURSIVE DigitsEnd(_, _)
DigitsEnd(s, i) == IF i <= Len(s) /\ IsDigit(s[i]) THEN DigitsEnd(s, i + 1) ELSE i

\* the magnitude of the digits s[i..j-1], saturated just above LongMax + 1
RECURSIVE Magnitude(_, _, _, _)
Magnitude(s, i, j, acc) ==
    IF i >= j THEN acc
    ELSE LET v == acc * 10 + DigitVal(s[i])
         IN  Magnitude(s, i + 1, j, IF v > LongMax + 2 THEN LongMax + 2 ELSE v)

\* strtol(s, &endptr, 10): conv, the index endptr points at, and errno
strtol(s) ==
    LET neg   == Len(s) >= 1 /\ s[1] = "-"
        start == IF neg THEN 2 ELSE 1
        stop  == DigitsEnd(s, start)
        mag   == Magnitude(s, start, stop, 0)
    IN  IF stop = start THEN [conv |-> 0, end |-> 1, err |-> 0]
        ELSE IF ~neg /\ mag > LongMax
             THEN [conv |-> LongMax, end |-> stop, err |-> ERANGE]
        ELSE IF neg /\ mag > LongMax + 1
             THEN [conv |-> 0 - (LongMax + 1), end |-> stop, err |-> ERANGE]
        ELSE [conv |-> IF neg THEN 0 - mag ELSE mag, end |-> stop, err |-> 0]

\* conversion of a long to int (buffer_len = strtol(...)): wraps modulo the word
ToInt(v) ==
    LET m    == UIntMax + 1
        half == m \div 2
    IN  ((v + half) % m) - half

\* strncpy(dst, src, n) into a zeroed buffer: the string left in dst
strncpy(src, n) == IF Len(src) < n THEN src ELSE SubSeq(src, 1, n)

Name15 == [i \in 1..(IFNAMSIZ - 1) |-> "x"]
Name16 == [i \in 1..IFNAMSIZ |-> "x"]
NameTun == <<"t", "u", "n", "9">>
NameBob == <<"b", "o", "b">>
NameEve == <<"e", "v", "e">>

\* the system identity directory: getpwnam / getgrnam
getpwnam(name) == IF name = NameBob THEN [found |-> TRUE, id |-> 3]
                  ELSE [found |-> FALSE, id |-> 0]

getgrnam(name) == IF name = NameBob THEN [found |-> TRUE, id |-> 4]
                  ELSE [found |-> FALSE, id |-> 0]

geteuid == 2
getegid == 5

\* (uid_t)(-1) and (gid_t)(-1)
UNSET == UIntMax

\* ------------------------------------------------------------ state
VARIABLES
    entry, variant, pc,
    \* main
    res, chr, optarg, nargs, verbosity, ifr_name, ifr_flags, persistent,
    buffer_len, uid, gid, tun_fd,
    \* create_tun: arguments that main fixes, and locals
    tun_fd_null, name_null, name_buffer_len,
    fd, ct_ifr_name, ct_ifr_flags, saved_flags, ct_ret,
    \* the operating system: descriptor table, status flags of the tun
    \* descriptor, the interface attached to it, errno
    open_fds, fd_flags, iface, errno,
    \* what the process asked of the system and wrote to stderr, in order
    log,
    \* signals: the flag, the signals signal_handler is installed for, whether
    \* a caught signal arrived during the current select, signals so far
    interrupt_flag, handlers, wait_intr, nsig,
    \* infinite_loop: locals and return value
    il_res, read_set, write_set, il_ret,
    \* the streams: bytes that became readable on stdin and on the device,
    \* end of input on each, bytes stdout accepts per write (0: not writable),
    \* bytes written to the device and to stdout
    stdin_src, tun_src, stdin_eof, tun_eof, stdout_room, tun_sink, stdout_sink

mainVars == <<res, chr, optarg, nargs, verbosity, ifr_flags, persistent,
              buffer_len, uid, gid>>
argVars == <<tun_fd_null, name_null, name_buffer_len>>
ctVars == <<fd, ct_ifr_name, ct_ifr_flags, saved_flags>>
osVars == <<open_fds, fd_flags, iface, errno>>
sigVars == <<interrupt_flag, handlers, wait_intr, nsig>>
ilVars == <<il_res, read_set, write_set, il_ret>>
envVars == <<stdin_src, tun_src, stdin_eof, tun_eof, stdout_room>>
sinkVars == <<tun_sink, stdout_sink>>
loopVars == <<sigVars, ilVars, envVars, sinkVars>>
vars == <<entry, variant, pc, mainVars, ifr_name, tun_fd, argVars, ctVars,
          ct_ret, osVars, log, loopVars>>

Ev(op, arg, ok) == [op |-> op, arg |-> arg, ok |-> ok]

NoIface == [attached |-> FALSE, request |-> <<>>, name |-> <<>>, flags |-> {},
            persist |-> FALSE, owner |-> UNSET, group |-> UNSET]

\* ------------------------------------------------------------ options
get_uid_by_name(name, id) ==
    LET c == strtol(name)
    IN  IF c.end = Len(name) + 1 /\ c.err = 0
        THEN IF c.conv < 0 \/ c.conv > UIntMax
             THEN [ret |-> ERANGE, id |-> id, msg |-> <<Ev("stderr: invalid user id", 0, FALSE)>>]
             ELSE [ret |-> 0, id |-> c.conv, msg |-> <<>>]
        ELSE LET pw == getpwnam(name)
             IN  IF ~pw.found
                 THEN [ret |-> EINVAL, id |-> id, msg |-> <<Ev("stderr: user not found", 0, FALSE)>>]
                 ELSE [ret |-> 0, id |-> pw.id, msg |-> <<>>]

get_gid_by_name(name, id) ==
    LET c == strtol(name)
    IN  IF c.end = Len(name) + 1 /\ c.err = 0
        THEN IF c.conv < 0 \/ c.conv > UIntMax
             THEN [ret |-> ERANGE, id |-> id, msg |-> <<Ev("stderr: invalid group id", 0, FALSE)>>]
             ELSE [ret |-> 0, id |-> c.conv, msg |-> <<>>]
        ELSE LET gr == getgrnam(name)
             IN  IF ~gr.found
                 THEN [ret |-> EINVAL, id |-> id, msg |-> <<Ev("stderr: group not found", 0, FALSE)>>]
                 ELSE [ret |-> 0, id |-> gr.id, msg |-> <<>>]

Opt(c, a) == [chr |-> c, arg |-> a]

IfNames == {<<>>, NameTun, Name15, Name16}
IdTexts == {Itoa(1), Itoa(UIntMax), Itoa(UIntMax + 1), Itoa(0 - 1),
            Itoa(LongMax + 1), <<>>, NameBob, NameEve}
BufTexts == {Itoa(0 - 1), Itoa(0), Itoa(1), Itoa(UIntMax), <<"x">>}

\* what getopt_long can return for one argument: the long options of v1 and
\* v2 have no "user" and "group", which getopt_long then reports as '?'
getopt_long(v) ==
    {Opt("v", <<>>), Opt("e", <<>>), Opt("f", <<>>), Opt("p", <<>>), Opt("?", <<>>)}
    \cup {Opt("i", n) : n \in IfNames}
    \cup {Opt("b", t) : t \in BufTexts}
    \cup (IF v = "v3" THEN {Opt("u", t) : t \in IdTexts} \cup {Opt("g", t) : t \in IdTexts}
          ELSE {})

Usage == Ev("stderr: usage", 0, FALSE)

\* the default: label of the switch
SwitchDefault(v, r) == IF v = "v3" THEN 1 ELSE r

\* one pass through the switch of main: the new values of what it assigns
Switch(v, o) ==
    LET same == [res |-> res, verbosity |-> verbosity, ifr_name |-> ifr_name,
                 ifr_flags |-> ifr_flags, persistent |-> persistent,
                 buffer_len |-> buffer_len, uid |-> uid, gid |-> gid, msg |-> <<>>]
    IN  CASE o.chr = "EOF" -> same
          [] o.chr = "v" -> [same EXCEPT !.verbosity = verbosity + 1]
          [] o.chr = "i" ->
                IF Len(o.arg) = 0 \/ Len(o.arg) >= IFNAMSIZ
                THEN [same EXCEPT !.res = EINVAL,
                         !.msg = <<Ev("stderr: invalid interface name", 0, FALSE)>>]
                ELSE [same EXCEPT !.ifr_name = strncpy(o.arg, IFNAMSIZ)]
          [] o.chr = "e" ->
                [same EXCEPT !.ifr_flags = (ifr_flags \ {"IFF_TUN"}) \cup {"IFF_TAP"}]
          [] o.chr = "f" -> [same EXCEPT !.ifr_flags = ifr_flags \ {"IFF_NO_PI"}]
          [] o.chr = "p" -> [same EXCEPT !.persistent = 1]
          [] o.chr = "u" ->
                LET r == get_uid_by_name(o.arg, uid)
                IN  [same EXCEPT !.res = r.ret, !.uid = r.id, !.msg = r.msg]
          [] o.chr = "g" ->
                LET r == get_gid_by_name(o.arg, gid)
                IN  [same EXCEPT !.res = r.ret, !.gid = r.id, !.msg = r.msg]
          [] o.chr = "b" ->
                LET n == ToInt(strtol(o.arg).conv)
                IN  IF n <= 0
                    THEN [same EXCEPT !.buffer_len = n, !.res = EINVAL,
                             !.msg = <<Ev("stderr: invalid buffer size", 0, FALSE)>>]
                    ELSE [same EXCEPT !.buffer_len = n, !.res = SwitchDefault(v, res),
                             !.msg = <<Usage>>]
          [] OTHER -> [same EXCEPT !.res = SwitchDefault(v, res), !.msg = <<Usage>>]

\* ------------------------------------------------------------ main
\* one iteration of the do-while that parses the options
m_getopt ==
    /\ pc = "m_getopt"
    /\ \E o \in (IF nargs < MaxArgs THEN getopt_long(variant) ELSE {}) \cup {Opt("EOF", <<>>)} :
         LET s == Switch(variant, o)
         IN  /\ chr' = o.chr
             /\ optarg' = IF o.chr = "EOF" THEN optarg ELSE o.arg
             /\ nargs' = IF o.chr = "EOF" THEN nargs ELSE nargs + 1
             /\ res' = s.res
             /\ verbosity' = s.verbosity
             /\ ifr_name' = s.ifr_name
             /\ ifr_flags' = s.ifr_flags
             /\ persistent' = s.persistent
             /\ buffer_len' = s.buffer_len
             /\ uid' = s.uid
             /\ gid' = s.gid
             /\ log' = log \o s.msg
             /\ pc' = IF s.res = 0 /\ o.chr # "EOF" THEN "m_getopt" ELSE "m_parsed"
    /\ UNCHANGED <<entry, variant, tun_fd, argVars, ctVars, ct_ret, osVars, loopVars>>

\* values an int that was never initialised can hold
Indeterminate == {0, STDOUT_FILENO, 9}

\* after the loop: v1 returns; v3 jumps to cleanup over the initialisation of
\* tun_fd when parsing failed; otherwise tun_fd = 0 and create_tun is called
m_parsed ==
    /\ pc = "m_parsed"
    /\ IF variant = "v1"
       THEN pc' = "done" /\ UNCHANGED tun_fd
       ELSE IF variant = "v3" /\ res # 0
       THEN pc' = "m_cleanup" /\ tun_fd' \in Indeterminate
       ELSE pc' = "ct_open" /\ tun_fd' = 0
    /\ UNCHANGED <<entry, variant, mainVars, ifr_name, argVars, ctVars, ct_ret, osVars, log,
                   loopVars>>

\* ------------------------------------------------------------ create_tun
\* the lowest descriptor not in use, which open() returns
LowestFree(fds) == CHOOSE n \in 0..(Cardinality(fds)) :
                      n \notin fds /\ \A k \in 0..(n - 1) : k \in fds

\* errno left by a failing device request
Errnos == {EPERM, EBUSY}

\* return code; to main when main made the call
CtReturn(code) ==
    /\ ct_ret' = code
    /\ pc' = IF entry = "main" THEN "m_ret" ELSE "done"

\* CtFail without its close(fd)
CtFail_leak(code, events) ==
    /\ open_fds' = open_fds
    /\ log' = log \o events
    /\ CtReturn(code)

\* the failure exit of every step after open: close(fd); return code;
CtFail(code, events) ==
    /\ open_fds' = open_fds \ {fd}
    /\ log' = log \o events \o <<Ev("close", fd, fd \in open_fds)>>
    /\ CtReturn(code)

\* fd = open("/dev/net/tun", O_RDWR), after the check of the out parameter
ct_open ==
    /\ pc = "ct_open"
    /\ IF tun_fd_null
       THEN /\ CtReturn(EINVAL)
            /\ UNCHANGED <<fd, osVars, log>>
       ELSE \/ /\ fd' = LowestFree(open_fds)
               /\ open_fds' = open_fds \cup {fd'}
               /\ fd_flags' = {"O_RDWR"}
               /\ log' = Append(log, Ev("open", fd', TRUE))
               /\ pc' = "ct_name"
               /\ UNCHANGED <<ct_ret, iface, errno>>
            \/ \E e \in Errnos :
                 /\ errno' = e
                 /\ log' = Append(log, Ev("open", 0 - 1, FALSE))
                 /\ CtReturn(e)
                 /\ UNCHANGED <<fd, open_fds, fd_flags, iface>>
    /\ UNCHANGED <<entry, variant, mainVars, ifr_name, tun_fd, argVars,
                   ct_ifr_name, ct_ifr_flags, saved_flags, loopVars>>

\* the request is prepared: flags, and the name when one is given
ct_name ==
    /\ pc = "ct_name"
    /\ ct_ifr_flags' = {"IFF_TUN", "IFF_NO_PI"}
    /\ IF ~name_null /\ Len(ifr_name) >= IFNAMSIZ
       THEN /\ CtFail(ENAMETOOLONG, <<Ev("stderr: interface name too long", 0, FALSE)>>)
            /\ ct_ifr_name' = <<>>
       ELSE /\ ct_ifr_name' = IF name_null THEN <<>> ELSE strncpy(ifr_name, IFNAMSIZ)
            /\ pc' = "ct_setiff"
            /\ UNCHANGED <<ct_ret, open_fds, log>>
    /\ UNCHANGED <<entry, variant, mainVars, ifr_name, tun_fd, argVars, fd,
                   saved_flags, fd_flags, iface, errno, loopVars>>

\* the name the system confirms: the request, or one it assigns to an empty one
ConfirmedNames(name, flags) ==
    IF name # <<>> THEN {name}
    ELSE IF "IFF_TAP" \in flags THEN {<<"t", "a", "p", "0">>}
    ELSE {<<"t", "u", "n", "0">>, <<"t", "u", "n", "1", "0">>}

\* ioctl(fd, TUNSETIFF, &ifr)
ct_setiff ==
    /\ pc = "ct_setiff"
    /\ \/ \E n \in ConfirmedNames(ct_ifr_name, ct_ifr_flags) :
            /\ ct_ifr_name' = n
            /\ iface' = [NoIface EXCEPT !.attached = TRUE, !.name = n,
                                        !.request = ct_ifr_name,
                                        !.flags = ct_ifr_flags]
            /\ log' = Append(log, Ev("TUNSETIFF", fd, TRUE))
            /\ pc' = "ct_getfl"
            /\ UNCHANGED <<ct_ret, open_fds, errno>>
       \/ \E e \in Errnos :
            /\ errno' = e
            /\ CtFail(e, <<Ev("TUNSETIFF", fd, FALSE)>>)
            /\ UNCHANGED <<ct_ifr_name, iface>>
    /\ UNCHANGED <<entry, variant, mainVars, ifr_name, tun_fd, argVars, fd,
                   ct_ifr_flags, saved_flags, fd_flags, loopVars>>

\* saved_flags = fcntl(fd, F_GETFL)
ct_getfl ==
    /\ pc = "ct_getfl"
    /\ \/ /\ saved_flags' = fd_flags
          /\ log' = Append(log, Ev("F_GETFL", fd, TRUE))
          /\ pc' = "ct_setfl"
          /\ UNCHANGED <<ct_ret, open_fds, errno>>
       \/ \E e \in Errnos :
            /\ errno' = e
            /\ CtFail(e, <<Ev("F_GETFL", fd, FALSE)>>)
            /\ UNCHANGED saved_flags
    /\ UNCHANGED <<entry, variant, mainVars, ifr_name, tun_fd, argVars, fd,
                   ct_ifr_name, ct_ifr_flags, fd_flags, iface, loopVars>>

\* SetflArg without O_NONBLOCK
SetflArg_saved(saved) == saved

\* the flags handed to F_SETFL
SetflArg(saved) == saved \cup {"O_NONBLOCK"}

\* fcntl(fd, F_SETFL, saved_flags | O_NONBLOCK)
ct_setfl ==
    /\ pc = "ct_setfl"
    /\ \/ /\ fd_flags' = SetflArg(saved_flags)
          /\ log' = Append(log, Ev("F_SETFL", fd, TRUE))
          /\ pc' = "ct_persist"
          /\ UNCHANGED <<ct_ret, open_fds, errno>>
       \/ \E e \in Errnos :
            /\ errno' = e
            /\ CtFail(e, <<Ev("F_SETFL", fd, FALSE)>>)
            /\ UNCHANGED fd_flags
    /\ UNCHANGED <<entry, variant, mainVars, ifr_name, tun_fd, argVars, ctVars,
                   iface, loopVars>>

\* if (persistent) ioctl(fd, TUNSETPERSIST, 1)
ct_persist ==
    /\ pc = "ct_persist"
    /\ IF persistent # 0
       THEN \/ /\ iface' = [iface EXCEPT !.persist = TRUE]
               /\ log' = Append(log, Ev("TUNSETPERSIST", fd, TRUE))
               /\ pc' = "ct_owner"
               /\ UNCHANGED <<ct_ret, open_fds, errno>>
            \/ \E e \in Errnos :
                 /\ errno' = e
                 /\ CtFail(e, <<Ev("TUNSETPERSIST", fd, FALSE)>>)
                 /\ UNCHANGED iface
       ELSE /\ pc' = "ct_owner"
            /\ UNCHANGED <<ct_ret, open_fds, errno, iface, log>>
    /\ UNCHANGED <<entry, variant, mainVars, ifr_name, tun_fd, argVars, ctVars,
                   fd_flags, loopVars>>

OwnerGiven_always(id) == TRUE

\* uid != (uid_t)(-1), gid != (gid_t)(-1)
OwnerGiven(id) == id # UNSET

\* if (uid != (uid_t)(-1)) ioctl(fd, TUNSETOWNER, uid): v3 only
ct_owner ==
    /\ pc = "ct_owner"
    /\ IF variant = "v3" /\ OwnerGiven(uid)
       THEN \/ /\ iface' = [iface EXCEPT !.owner = uid]
               /\ log' = Append(log, Ev("TUNSETOWNER", uid, TRUE))
               /\ pc' = "ct_group"
               /\ UNCHANGED <<ct_ret, open_fds, errno>>
            \/ \E e \in Errnos :
                 /\ errno' = e
                 /\ CtFail(e, <<Ev("TUNSETOWNER", uid, FALSE)>>)
                 /\ UNCHANGED iface
       ELSE /\ pc' = "ct_group"
            /\ UNCHANGED <<ct_ret, open_fds, errno, iface, log>>
    /\ UNCHANGED <<entry, variant, mainVars, ifr_name, tun_fd, argVars, ctVars,
                   fd_flags, loopVars>>

\* if (gid != (gid_t)(-1)) ioctl(fd, TUNSETGROUP, gid): v3 only
ct_group ==
    /\ pc = "ct_group"
    /\ IF variant = "v3" /\ OwnerGiven(gid)
       THEN \/ /\ iface' = [iface EXCEPT !.group = gid]
               /\ log' = Append(log, Ev("TUNSETGROUP", gid, TRUE))
               /\ pc' = "ct_nameback"
               /\ UNCHANGED <<ct_ret, open_fds, errno>>
            \/ \E e \in Errnos :
                 /\ errno' = e
                 /\ CtFail(e, <<Ev("TUNSETGROUP", gid, FALSE)>>)
                 /\ UNCHANGED iface
       ELSE /\ pc' = "ct_nameback"
            /\ UNCHANGED <<ct_ret, open_fds, errno, iface, log>>
    /\ UNCHANGED <<entry, variant, mainVars, ifr_name, tun_fd, argVars, ctVars,
                   fd_flags, loopVars>>

NameTooLong_off_by_one(actual_len, buffer_len_) == actual_len > buffer_len_

\* actual_len >= name_buffer_len: no room for the name and its terminator
NameTooLong(actual_len, buffer_len_) == actual_len >= buffer_len_

\* the confirmed name is copied back, *tun_fd = fd, return 0
ct_nameback ==
    /\ pc = "ct_nameback"
    /\ IF ~name_null /\ NameTooLong(Len(ct_ifr_name), name_buffer_len)
       THEN /\ CtFail(2, <<Ev("stderr: interface name too long for buffer", 0, FALSE)>>)
            /\ UNCHANGED <<ifr_name, tun_fd>>
       ELSE /\ ifr_name' = IF name_null THEN ifr_name
                           ELSE strncpy(ct_ifr_name, name_buffer_len)
            /\ tun_fd' = fd
            /\ CtReturn(0)
            /\ UNCHANGED <<open_fds, log>>
    /\ UNCHANGED <<entry, variant, mainVars, argVars, ctVars, fd_flags, iface,
                   errno, loopVars>>

\* ------------------------------------------------------------ close_tun
close_tun(d, fds) ==
    IF d <= 0 THEN [ret |-> EINVAL, fds |-> fds, events |-> <<>>]
    ELSE IF d \notin fds
    THEN [ret |-> EBADF, fds |-> fds, events |-> <<Ev("close", d, FALSE)>>]
    ELSE [ret |-> 0, fds |-> fds \ {d}, events |-> <<Ev("close", d, TRUE)>>]

\* ------------------------------------------------------------ main, end
\* res = create_tun(...); the name is reported when it succeeded
m_ret ==
    /\ pc = "m_ret"
    /\ res' = ct_ret
    /\ log' = IF ct_ret # 0 THEN log
              ELSE Append(log, Ev("stderr: Listening on", Len(ifr_name), TRUE))
    /\ pc' = "m_cleanup"
    /\ UNCHANGED <<entry, variant, chr, optarg, nargs, verbosity, ifr_flags,
                   persistent, buffer_len, uid, gid, ifr_name, tun_fd, argVars,
                   ctVars, ct_ret, osVars, loopVars>>

\* cleanup: if (tun_fd != 0) close_tun(tun_fd); return res;
m_cleanup ==
    /\ pc = "m_cleanup"
    /\ IF tun_fd # 0
       THEN LET c == close_tun(tun_fd, open_fds)
            IN  /\ open_fds' = c.fds
                /\ errno' = IF c.ret = EBADF THEN EBADF ELSE errno
                /\ log' = log \o <<Ev("close_tun", tun_fd, c.ret = 0)>> \o c.events
       ELSE UNCHANGED <<open_fds, errno, log>>
    /\ pc' = "done"
    /\ UNCHANGED <<entry, variant, mainVars, ifr_name, tun_fd, argVars, ctVars,
                   ct_ret, fd_flags, iface, loopVars>>

\* ------------------------------------------------------------ signals
\* setup_signal_handlers: sigaction(SIGINT), then sigaction(SIGTERM) unless the
\* first failed; the result is not modelled further (no caller reads it)
setup_signal_handlers ==
    /\ pc = "sig_setup"
    /\ \E h \in {{}, {"SIGINT"}, {"SIGINT", "SIGTERM"}} : handlers' = h
    /\ pc' = "il_entry"
    /\ UNCHANGED <<entry, variant, mainVars, ifr_name, tun_fd, argVars, ctVars,
                   ct_ret, osVars, log, interrupt_flag, wait_intr, nsig, ilVars,
                   envVars, sinkVars>>

InLoop == pc \in {"il_entry", "il_while", "il_fdset", "il_select", "il_check", "il_return"}

HandlerStore_toggle(flag) == 1 - flag

\* interrupt_flag = 1
HandlerStore(flag) == 1

\* signal_handler runs for a SIGINT or SIGTERM it is installed for; a signal
\* that arrives while select() waits interrupts the wait
signal_handler ==
    /\ InLoop
    /\ handlers # {}
    /\ nsig < MaxSignals
    /\ nsig' = nsig + 1
    /\ interrupt_flag' = HandlerStore(interrupt_flag)
    /\ wait_intr' = (wait_intr \/ pc = "il_select")
    /\ UNCHANGED <<entry, variant, pc, mainVars, ifr_name, tun_fd, argVars, ctVars,
                   ct_ret, osVars, log, handlers, ilVars, envVars, sinkVars>>

\* a signal caught by a handler of the embedding process other than
\* signal_handler arrives while select() waits
other_signal ==
    /\ pc = "il_select"
    /\ nsig < MaxSignals
    /\ nsig' = nsig + 1
    /\ wait_intr' = TRUE
    /\ UNCHANGED <<entry, variant, pc, mainVars, ifr_name, tun_fd, argVars, ctVars,
                   ct_ret, osVars, log, interrupt_flag, handlers, ilVars, envVars,
                   sinkVars>>

\* ------------------------------------------------------------ the streams
\* the peer of a stream makes one more byte readable, or ends the stream
env_stdin ==
    /\ InLoop
    /\ ~stdin_eof
    /\ \/ /\ Len(stdin_src) < MaxData
          /\ stdin_src' = Append(stdin_src, Len(stdin_src) + 1)
          /\ UNCHANGED stdin_eof
       \/ /\ stdin_eof' = TRUE
          /\ UNCHANGED stdin_src
    /\ UNCHANGED <<entry, variant, pc, mainVars, ifr_name, tun_fd, argVars, ctVars,
                   ct_ret, osVars, log, sigVars, ilVars, tun_src, tun_eof,
                   stdout_room, sinkVars>>

env_tun ==
    /\ InLoop
    /\ ~tun_eof
    /\ \/ /\ Len(tun_src) < MaxData
          /\ tun_src' = Append(tun_src, 10 + Len(tun_src) + 1)
          /\ UNCHANGED tun_eof
       \/ /\ tun_eof' = TRUE
          /\ UNCHANGED tun_src
    /\ UNCHANGED <<entry, variant, pc, mainVars, ifr_name, tun_fd, argVars, ctVars,
                   ct_ret, osVars, log, sigVars, ilVars, stdin_src, stdin_eof,
                   stdout_room, sinkVars>>

\* the reader of stdout changes how many bytes a write is accepted for
env_stdout ==
    /\ InLoop
    /\ \E r \in {0, 1, MaxData} :
         /\ r # stdout_room
         /\ stdout_room' = r
    /\ UNCHANGED <<entry, variant, pc, mainVars, ifr_name, tun_fd, argVars, ctVars,
                   ct_ret, osVars, log, sigVars, ilVars, stdin_src, tun_src,
                   stdin_eof, tun_eof, sinkVars>>

\* ------------------------------------------------------------ infinite_loop
\* the sets are cleared, res = 0, the buffer is allocated
il_entry ==
    /\ pc = "il_entry"
    /\ read_set' = {}
    /\ write_set' = {}
    /\ il_res' = 0
    /\ \/ /\ log' = Append(log, Ev("calloc", buffer_len, TRUE))
          /\ pc' = "il_while"
          /\ UNCHANGED il_ret
       \/ /\ log' = Append(log, Ev("calloc", buffer_len, FALSE))
          /\ il_ret' = ENOMEM
          /\ pc' = "done"
    /\ UNCHANGED <<entry, variant, mainVars, ifr_name, tun_fd, argVars, ctVars,
                   ct_ret, osVars, sigVars, envVars, sinkVars>>

\* while (res == 0)
il_while ==
    /\ pc = "il_while"
    /\ pc' = IF il_res = 0 THEN "il_fdset" ELSE "il_return"
    /\ UNCHANGED <<entry, variant, mainVars, ifr_name, tun_fd, argVars, ctVars,
                   ct_ret, osVars, log, loopVars>>

\* FD_SET(tun_fd, &read_set); FD_SET(STDIN_FILENO, &read_set);
\* FD_SET(STDOUT_FILENO, &write_set);
il_fdset ==
    /\ pc = "il_fdset"
    /\ read_set' = read_set \cup {tun_fd, STDIN_FILENO}
    /\ write_set' = write_set \cup {STDOUT_FILENO}
    /\ pc' = "il_select"
    /\ UNCHANGED <<entry, variant, mainVars, ifr_name, tun_fd, argVars, ctVars,
                   ct_ret, osVars, log, sigVars, il_res, il_ret, envVars, sinkVars>>

\* the descriptors of a set that select(nfds, ...) looks at
Watched(set, nfds) == {d \in set : d < nfds}

Readable(d) == \/ d = tun_fd /\ (tun_src # <<>> \/ tun_eof)
               \/ d = STDIN_FILENO /\ (stdin_src # <<>> \/ stdin_eof)

Writable(d) == d = STDOUT_FILENO /\ stdout_room > 0

\* res = select(nfds, &read_set, &write_set, NULL, NULL): fails with EBADF on
\* a descriptor that is not open, with EINTR on a caught signal, and otherwise
\* waits until a descriptor is ready and returns how many are
il_select ==
    /\ pc = "il_select"
    /\ LET nfds == tun_fd + 1
           rd   == Watched(read_set, nfds)
           wr   == Watched(write_set, nfds)
           rrd  == {d \in rd : Readable(d)}
           rwr  == {d \in wr : Writable(d)}
       IN  IF ~((rd \cup wr) \subseteq open_fds)
           THEN /\ il_res' = 0 - 1
                /\ errno' = EBADF
                /\ log' = Append(log, Ev("select", EBADF, FALSE))
                /\ UNCHANGED <<read_set, write_set, wait_intr>>
           ELSE \/ /\ wait_intr
                   /\ il_res' = 0 - 1
                   /\ errno' = EINTR
                   /\ wait_intr' = FALSE
                   /\ log' = Append(log, Ev("select", EINTR, FALSE))
                   /\ UNCHANGED <<read_set, write_set>>
                \/ /\ rrd \cup rwr # {}
                   /\ il_res' = Cardinality(rrd) + Cardinality(rwr)
                   /\ read_set' = rrd
                   /\ write_set' = rwr
                   /\ wait_intr' = FALSE
                   /\ log' = Append(log, Ev("select", il_res', TRUE))
                   /\ UNCHANGED errno
    /\ pc' = "il_check"
    /\ UNCHANGED <<entry, variant, mainVars, ifr_name, tun_fd, argVars, ctVars,
                   ct_ret, open_fds, fd_flags, iface, interrupt_flag, handlers,
                   nsig, il_ret, envVars, sinkVars>>

\* where the loop goes after a select that failed with EINTR
AfterEintr == "il_return"

SelectError_raw(r, e) == r

\* perror("select()"); res = errno;
SelectError(r, e) == e

\* the result is examined, then the flag
il_check ==
    /\ pc = "il_check"
    /\ IF il_res < 0 /\ errno = EINTR
       THEN /\ il_res' = 0
            /\ pc' = AfterEintr
            /\ UNCHANGED log
       ELSE /\ il_res' = IF il_res < 0 THEN SelectError(il_res, errno) ELSE il_res
            /\ IF interrupt_flag # 0
               THEN /\ log' = Append(log, Ev("stderr: Received interrupt", 0, TRUE))
                    /\ pc' = "il_return"
               ELSE /\ pc' = "il_while"
                    /\ UNCHANGED log
    /\ UNCHANGED <<entry, variant, mainVars, ifr_name, tun_fd, argVars, ctVars,
                   ct_ret, osVars, sigVars, read_set, write_set, il_ret, envVars,
                   sinkVars>>

\* return res;
il_return ==
    /\ pc = "il_return"
    /\ il_ret' = il_res
    /\ pc' = "done"
    /\ UNCHANGED <<entry, variant, mainVars, ifr_name, tun_fd, argVars, ctVars,
                   ct_ret, osVars, log, sigVars, il_res, read_set, write_set,
                   envVars, sinkVars>>

\* ------------------------------------------------------------ executions
StartState ==
    /\ res = 0 /\ chr = "0" /\ optarg = <<>> /\ nargs = 0 /\ verbosity = 0
    /\ ifr_flags = {"IFF_NO_PI"} /\ buffer_len = DEFAULT_BUFFER_LEN
    /\ fd = 0 - 1 /\ ct_ifr_name = <<>> /\ ct_ifr_flags = {} /\ saved_flags = {}
    /\ ct_ret = 0 - 1
    /\ fd_flags = {} /\ iface = NoIface /\ errno = 0
    /\ log = <<>>
    /\ interrupt_flag = 0 /\ handlers = {} /\ wait_intr = FALSE /\ nsig = 0
    /\ il_res = 0 /\ read_set = {} /\ write_set = {} /\ il_ret = 0 - 1
    /\ stdin_src = <<>> /\ tun_src = <<>> /\ stdin_eof = FALSE /\ tun_eof = FALSE
    /\ tun_sink = <<>> /\ stdout_sink = <<>>

\* the program: main of one of the three revisions, with stdin open or closed
InitMain ==
    /\ entry = "main"
    /\ variant \in {"v1", "v2", "v3"}
    /\ pc = "m_getopt"
    /\ ifr_name = <<>>
    /\ persistent = 0
    /\ uid = IF variant = "v3" THEN geteuid ELSE UNSET
    /\ gid = IF variant = "v3" THEN getegid ELSE UNSET
    /\ tun_fd = 0
    /\ tun_fd_null = FALSE /\ name_null = FALSE /\ name_buffer_len = IFNAMSIZ
    /\ open_fds \in {{0, 1, 2}, {1, 2}}
    /\ stdout_room = 1

\* one call of create_tun, with any arguments
InitCreateTun ==
    /\ entry = "create_tun"
    /\ variant \in {"v2", "v3"}
    /\ pc = "ct_open"
    /\ name_null \in BOOLEAN
    /\ ifr_name \in IF name_null THEN {<<>>} ELSE IfNames
    /\ name_buffer_len \in {n \in {4, IFNAMSIZ, IFNAMSIZ + 1} : Len(ifr_name) < n}
    /\ persistent \in {0, 1}
    /\ uid \in IF variant = "v3" THEN {UNSET, 3} ELSE {UNSET}
    /\ gid \in IF variant = "v3" THEN {UNSET, 4} ELSE {UNSET}
    /\ tun_fd_null \in BOOLEAN
    /\ tun_fd = 0 - 1
    /\ open_fds \in {{0, 1, 2}, {1, 2}}
    /\ stdout_room = 1

\* one call of infinite_loop, after setup_signal_handlers, on a descriptor
\* that is open (3) or not (5)
InitLoop ==
    /\ entry = "infinite_loop"
    /\ variant = "v3"
    /\ pc = "sig_setup"
    /\ ifr_name = <<>>
    /\ persistent = 0
    /\ uid = UNSET /\ gid = UNSET
    /\ tun_fd \in {3, 5}
    /\ tun_fd_null = FALSE /\ name_null = FALSE /\ name_buffer_len = IFNAMSIZ
    /\ open_fds = {0, 1, 2, 3}
    /\ stdout_room \in {0, 1}

Init == StartState /\ (InitMain \/ InitCreateTun \/ InitLoop)

Next ==
    \/ m_getopt \/ m_parsed \/ m_ret \/ m_cleanup
    \/ ct_open \/ ct_name \/ ct_setiff \/ ct_getfl \/ ct_setfl \/ ct_persist
    \/ ct_owner \/ ct_group \/ ct_nameback
    \/ setup_signal_handlers \/ signal_handler \/ other_signal
    \/ env_stdin \/ env_tun \/ env_stdout
    \/ il_entry \/ il_while \/ il_fdset \/ il_select \/ il_check \/ il_return

Spec == Init /\ [][Next]_vars

\* ------------------------------------------------------------ properties
Indices(op) == {i \in DOMAIN log : log[i].op = op}

\* the position in the log of the successful open of /dev/net/tun, or 0
OpenIdx == IF \E i \in Indices("open") : log[i].ok
           THEN CHOOSE i \in Indices("open") : log[i].ok
           ELSE 0

\* create_tun has just returned to its caller
CtReturned == \/ entry = "main" /\ pc = "m_ret"
              \/ entry = "create_tun" /\ pc = "done"

\* the value of the caller's tun_fd when create_tun was called
TunFdAtCall == IF entry = "main" THEN 0 ELSE 0 - 1

\* a step of create_tun after the open failed: a request the system refused
\* or a check that printed its error
StepFailed == \E i \in DOMAIN log : i > OpenIdx /\ ~log[i].ok /\ log[i].op # "close"

ClosesAfterOpen == {i \in Indices("close") : i > OpenIdx}

\* C1: once open("/dev/net/tun") has succeeded, a failure of any later step of
\* create_tun closes the descriptor exactly once before create_tun returns,
\* returns a non-zero code and leaves *tun_fd as it was; no non-zero return
\* leaves the descriptor open.
C1_FailureClosesDevice ==
    (CtReturned /\ OpenIdx > 0) =>
        /\ StepFailed =>
             /\ ct_ret # 0
             /\ Cardinality(ClosesAfterOpen) = 1
             /\ \A i \in ClosesAfterOpen : log[i] = Ev("close", fd, TRUE)
             /\ fd \notin open_fds
             /\ tun_fd = TunFdAtCall
        /\ ct_ret # 0 => fd \notin open_fds

C1_Witness ==
    /\ CtReturned
    /\ OpenIdx > 0
    /\ \E i \in DOMAIN log : log[i] = Ev("TUNSETGROUP", gid, FALSE)
    /\ fd \notin open_fds
    /\ ct_ret = EBUSY

MainExited == entry = "main" /\ pc = "done"

\* C2: in every execution of main, close_tun is invoked exactly once, on the
\* acquired descriptor, if create_tun returned 0, and not at all otherwise.
C2_ReleaseMatchesAcquire ==
    MainExited =>
        IF ct_ret = 0
        THEN /\ Cardinality(Indices("close_tun")) = 1
             /\ \A i \in Indices("close_tun") : log[i].arg = fd
        ELSE Indices("close_tun") = {}

ParseErrors == {"stderr: invalid interface name", "stderr: invalid buffer size",
                "stderr: invalid user id", "stderr: user not found",
                "stderr: invalid group id", "stderr: group not found"}

\* option parsing reported an invalid value
InvalidValue == \E i \in DOMAIN log : log[i].op \in ParseErrors

\* C3: when option parsing detects an invalid value, main exits with a
\* non-zero status and /dev/net/tun is never opened.
C3_InvalidOptionOpensNothing ==
    (MainExited /\ InvalidValue) => (res # 0 /\ OpenIdx = 0)

\* C4: after create_tun succeeds, main reports the name, runs the forwarding
\* loop and releases the descriptor, in that order.
C4_AcquireReportLoopRelease ==
    (MainExited /\ ct_ret = 0) =>
        \E i, j, k, l \in DOMAIN log :
            /\ i < j /\ j < k /\ k < l
            /\ log[i].op = "open"
            /\ log[j].op = "stderr: Listening on"
            /\ log[k].op = "select"
            /\ log[l].op = "close_tun"

LoopReturned == entry = "infinite_loop" /\ pc = "done"

Selects == Indices("select")

\* the last select() call of the loop, when there is one
LastSelect == log[CHOOSE i \in Selects : \A j \in Selects : j <= i]

\* the loop printed that it received the interrupt
InterruptObserved == Indices("stderr: Received interrupt") # {}

\* C5: a termination signal makes the loop return 0, whether the signal
\* interrupted the wait (EINTR) or was seen through interrupt_flag after a
\* wait that returned ready descriptors.
C5_CancelledLoopReturnsZero ==
    (LoopReturned /\ Selects # {}) =>
        /\ (LastSelect = Ev("select", EINTR, FALSE)) => il_ret = 0
        /\ (LastSelect.ok /\ InterruptObserved) => il_ret = 0

\* C6: after a select() that failed with EINTR the loop leaves only if
\* interrupt_flag is set; otherwise it performs another select.
C6_EintrAloneDoesNotEndLoop ==
    (pc = "il_return" /\ Selects # {} /\ LastSelect = Ev("select", EINTR, FALSE))
        => interrupt_flag # 0

\* C7: without cancellation and without a failure the loop returns only when
\* the device is at end of file; a select() that reported ready descriptors
\* does not end the loop, and its count is not the return value.
C7_ReadySelectKeepsLooping ==
    (LoopReturned /\ Selects # {} /\ LastSelect.ok /\ ~InterruptObserved)
        => (tun_eof /\ il_ret = 0)

\* the destination holds, in order, a non-empty prefix of what the source made
\* readable
Delivered(src, sink) ==
    /\ Len(sink) >= 1
    /\ Len(sink) <= Len(src)
    /\ sink = SubSeq(src, 1, Len(sink))

\* C8: bytes that select() reported readable on stdin are written to the
\* device, and bytes reported readable on the device are written to stdout,
\* unmodified and in order, by the time the loop returns without cancellation.
C8_PassThrough ==
    (LoopReturned /\ Selects # {} /\ LastSelect.ok /\ ~InterruptObserved) =>
        /\ (STDIN_FILENO \in read_set /\ stdin_src # <<>>)
               => Delivered(stdin_src, tun_sink)
        /\ (tun_fd \in read_set /\ tun_src # <<>>)
               => Delivered(tun_src, stdout_sink)

\* C9: when stdout accepts fewer bytes per write than the chunk readable on
\* the device, repeated partial writes drain the chunk: the loop does not
\* return without cancellation while bytes of the chunk are undelivered.
C9_ThrottledChunkDrains ==
    (/\ LoopReturned /\ Selects # {} /\ LastSelect.ok /\ ~InterruptObserved
     /\ tun_fd \in read_set /\ STDOUT_FILENO \in write_set
     /\ 0 < stdout_room /\ stdout_room < Len(tun_src))
        => Len(stdout_sink) = Len(tun_src)

\* C10: every descriptor create_tun hands back on success has O_NONBLOCK
\* set, by an F_SETFL request that succeeded before the return.
C10_SuccessIsNonBlocking ==
    (CtReturned /\ ct_ret = 0) =>
        /\ tun_fd = fd
        /\ fd \in open_fds
        /\ "O_NONBLOCK" \in fd_flags
        /\ \E i \in Indices("F_SETFL") : log[i].ok /\ i > OpenIdx

C10_Witness ==
    /\ CtReturned
    /\ ct_ret = 0
    /\ persistent = 1
    /\ uid # UNSET
    /\ gid # UNSET
    /\ name_null
    /\ "O_NONBLOCK" \in fd_flags

\* the -i option that ended option parsing carried a name of IFNAMSIZ bytes or
\* more
LongNameRequested ==
    entry = "main" /\ chr = "i" /\ Len(optarg) >= IFNAMSIZ

\* C11: for a requested interface name of 16 bytes or more provisioning fails
\* with a configuration error (create_tun returns ENAMETOOLONG once the device
\* is open, main rejects the -i value), no TUNSETIFF request is issued and no
\* device descriptor is open when the failure is reported.
C11_LongNameNeverReachesDevice ==
    /\ (entry = "create_tun" /\ ~name_null /\ Len(ifr_name) >= IFNAMSIZ) =>
          /\ Indices("TUNSETIFF") = {}
          /\ (CtReturned /\ OpenIdx > 0) =>
                (ct_ret = ENAMETOOLONG /\ fd \notin open_fds)
    /\ (MainExited /\ LongNameRequested) =>
          /\ res # 0
          /\ Indices("TUNSETIFF") = {}
          /\ OpenIdx > 0 => fd \notin open_fds

\* C12: for a requested name of 0 to 15 bytes a successful create_tun writes
\* back a terminated name shorter than IFNAMSIZ that is the name the system
\* confirmed: the request when it is non-empty, a system-assigned name when
\* it is empty; a confirmed name that does not fit the caller's buffer with
\* its terminator makes create_tun fail with the buffer left as it was.
C12_ConfirmedNameWrittenBack ==
    (CtReturned /\ ~name_null /\ iface.attached) =>
        /\ ct_ret = 0 =>
             /\ ifr_name = iface.name
             /\ Len(ifr_name) < IFNAMSIZ
             /\ Len(ifr_name) < name_buffer_len
             /\ Len(iface.request) < IFNAMSIZ
             /\ iface.request # <<>> => ifr_name = iface.request
             /\ iface.request = <<>> => ifr_name # <<>>
        /\ Len(iface.name) >= name_buffer_len =>
             /\ ct_ret # 0
             /\ fd \notin open_fds
             /\ ifr_name = iface.request

C12_Witness ==
    /\ CtReturned
    /\ ct_ret = 0
    /\ ~name_null
    /\ iface.request = <<>>
    /\ Len(ifr_name) = 5
    /\ name_buffer_len = IFNAMSIZ

\* C13: the TUNSETIFF request carries exactly one of IFF_TUN and IFF_TAP, the
\* one the user selected (IFF_TAP exactly when -e was given), and carries
\* IFF_NO_PI unless -f was given.
C13_RequestCarriesSelectedMode ==
    (MainExited /\ iface.attached) =>
        /\ ("IFF_TAP" \in iface.flags) # ("IFF_TUN" \in iface.flags)
        /\ ("IFF_TAP" \in iface.flags) = ("IFF_TAP" \in ifr_flags)
        /\ ("IFF_NO_PI" \in iface.flags) = ("IFF_NO_PI" \in ifr_flags)

\* the select() calls of the loop that failed with an error other than EINTR
FatalSelects == {i \in Selects : ~log[i].ok /\ log[i].arg # EINTR}

\* C14: a select() failure other than EINTR is fatal: the loop performs no
\* further select() and returns the errno of the failure, which is non-zero
\* and is neither 0 nor a count of ready descriptors.
C14_SelectFailureIsFatal ==
    \A i \in FatalSelects :
        /\ \A j \in Selects : j <= i
        /\ LoopReturned =>
             /\ il_ret = log[i].arg
             /\ il_ret > 0
             /\ il_ret \notin 0 .. Cardinality(read_set) + Cardinality(write_set)

C14_Witness ==
    /\ LoopReturned
    /\ FatalSelects # {}
    /\ LastSelect = Ev("select", EBADF, FALSE)
    /\ il_ret = EBADF
    /\ interrupt_flag = 0

\* every close_tun call main made returned 0
ReleaseSucceeded == \A i \in Indices("close_tun") : log[i].ok

\* C15: the exit status of main is 0 only when option parsing, create_tun and
\* close_tun all succeeded; when option parsing rejected a value, the status
\* is the code of that rejection (EINVAL or ERANGE), which a later successful
\* operation does not replace by 0 or by its own code.
C15_ExitStatusIsFirstFailure ==
    (MainExited /\ variant # "v1") =>
        /\ res = 0 => (~InvalidValue /\ ct_ret = 0 /\ ReleaseSucceeded)
        /\ InvalidValue => res \in {EINVAL, ERANGE}

\* C16: close_tun returns 0 only when it closed the descriptor that create_tun
\* acquired and that was still open; on a descriptor that was never acquired
\* it returns non-zero.
C16_ReleaseOnlyOfAcquired ==
    \A i \in Indices("close_tun") :
        log[i].ok => (ct_ret = 0 /\ log[i].arg = fd)

\* a step that changes interrupt_flag is a run of signal_handler: it stores 1
\* and moves nothing else of the program
FlagStep ==
    interrupt_flag' # interrupt_flag =>
        /\ interrupt_flag = 0
        /\ interrupt_flag' = 1
        /\ nsig' = nsig + 1
        /\ handlers # {}
        /\ UNCHANGED <<pc, il_res, il_ret, log>>

\* C17: interrupt_flag is monotonic: it starts at 0, its only writer is
\* signal_handler, which stores 1, and it is never reset to 0; the steps of
\* infinite_loop only read it.
C17_InterruptFlagMonotonic ==
    /\ interrupt_flag = 0
    /\ [][FlagStep /\ (interrupt_flag = 1 => interrupt_flag' = 1)]_vars

\* the handler ran twice and the loop returned after seeing the flag
C17_Witness ==
    /\ LoopReturned
    /\ nsig = 2
    /\ interrupt_flag = 1
    /\ InterruptObserved

\* the requests create_tun makes on the device
RequestOps == {"open", "TUNSETIFF", "F_GETFL", "F_SETFL", "TUNSETPERSIST",
               "TUNSETOWNER", "TUNSETGROUP"}

IsRequest(e) == e.op \in RequestOps

Requests == SelectSeq(log, IsRequest)

\* the requests a create_tun that meets no failure makes, in order, for the
\* arguments it was given
ExpectedRequests ==
    <<"open", "TUNSETIFF", "F_GETFL", "F_SETFL">>
    \o (IF persistent # 0 THEN <<"TUNSETPERSIST">> ELSE <<>>)
    \o (IF variant = "v3" /\ uid # UNSET THEN <<"TUNSETOWNER">> ELSE <<>>)
    \o (IF variant = "v3" /\ gid # UNSET THEN <<"TUNSETGROUP">> ELSE <<>>)

\* C18 as stated: TUNSETPERSIST is issued only when persistence was asked
\* for, TUNSETOWNER and TUNSETGROUP only when the user gave an owner or a
\* group; a user who gives no option at all gave none of them, so none of the
\* three requests is issued.
C18_NoOwnerGivenNoOwnerRequest ==
    (MainExited /\ nargs = 0) =>
        /\ Indices("TUNSETPERSIST") = {}
        /\ Indices("TUNSETOWNER") = {}
        /\ Indices("TUNSETGROUP") = {}

\* C18 amended: create_tun issues its requests in the order open, TUNSETIFF,
\* F_GETFL, F_SETFL, TUNSETPERSIST, TUNSETOWNER, TUNSETGROUP and none after
\* one that failed; TUNSETPERSIST is issued exactly when persistent is
\* non-zero, TUNSETOWNER and TUNSETGROUP exactly when the uid and gid
\* arguments differ from (uid_t)-1 and (gid_t)-1, carrying those ids; main
\* passes geteuid() and getegid() when the user gave no owner or group.
C18_RequestsInFixedOrder ==
    /\ Len(Requests) <= Len(ExpectedRequests)
    /\ \A i \in DOMAIN Requests :
          /\ Requests[i].op = ExpectedRequests[i]
          /\ i < Len(Requests) => Requests[i].ok
          /\ Requests[i].op = "TUNSETOWNER" => Requests[i].arg = uid
          /\ Requests[i].op = "TUNSETGROUP" => Requests[i].arg = gid
    /\ (CtReturned /\ ct_ret = 0) =>
          /\ Len(Requests) = Len(ExpectedRequests)
          /\ Requests[Len(Requests)].ok
    /\ (MainExited /\ nargs = 0 /\ ct_ret = 0 /\ variant = "v3") =>
          /\ \E i \in Indices("TUNSETOWNER") : log[i].arg = geteuid
          /\ \E i \in Indices("TUNSETGROUP") : log[i].arg = getegid

C18_Witness ==
    /\ CtReturned
    /\ ct_ret = 0
    /\ variant = "v3"
    /\ persistent # 0
    /\ uid = UNSET
    /\ gid # UNSET
    /\ Len(Requests) = 6

\* the option just handled by the switch of main is -b
BufferOptionHandled ==
    entry = "main" /\ chr = "b" /\ pc \in {"m_getopt", "m_parsed"}

UsageErrors == Indices("stderr: usage")

\* C19: -b is accepted for every value greater than 0 and rejected for every
\* value of 0 or less: after a positive -b, res is still 0, no usage text is
\* printed and the capacity is the value; a non-positive -b ends parsing with
\* EINVAL; the capacity main goes on with is greater than 0.
C19_PositiveBufferAccepted ==
    BufferOptionHandled =>
        LET value == strtol(optarg).conv
        IN  /\ value > 0 =>
                  /\ res = 0
                  /\ buffer_len = value
                  /\ nargs = 1 => UsageErrors = {}
            /\ value <= 0 => res = EINVAL
            /\ res = 0 => buffer_len > 0

\* an optional minus sign followed by at least one digit, and nothing else
IsNumericText(s) ==
    LET body == IF s # <<>> /\ s[1] = "-" THEN Tail(s) ELSE s
    IN  body # <<>> /\ \A i \in DOMAIN body : IsDigit(body[i])

\* the option just handled by the switch of main is -u with a numeric text
NumericUserHandled ==
    /\ entry = "main" /\ variant = "v3" /\ chr = "u"
    /\ pc \in {"m_getopt", "m_parsed"}
    /\ IsNumericText(optarg)

\* C20: for every numeric owner text get_uid_by_name accepts, the id stored
\* is the parsed value and is not the sentinel (uid_t)-1 that makes create_tun
\* skip TUNSETOWNER; a value below 0 or above the range of the id type is
\* rejected with ERANGE.
C20_AcceptedIdIsNeverSentinel ==
    NumericUserHandled =>
        LET c == strtol(optarg)
        IN  /\ res = 0 => (uid = c.conv /\ c.err = 0 /\ uid # UNSET)
            /\ (c.err # 0 \/ c.conv < 0 \/ c.conv > UIntMax) => res = ERANGE

====
